---------------------------- MODULE Spec2Model ----------------------------
(***************************************************************************)
(* Model of the AI_Trading_Alerts signal engines.                          *)
(*                                                                         *)
(*   - src/indicators/smc_smart_money.py : check_buy_signal(df), the       *)
(*     structure engine (pivots, BOS/CHoCH classifier, confluence filter,  *)
(*     order blocks, equal levels, EMA trend filter).                      *)
(*   - src/smc.py : SMCDiscountStrategy (discount zone + bullish           *)
(*     engulfing + volume gate, TP/SL, bounded signal history).            *)
(*   - src/newermain.py : check_buy_signal(ticker) built on the strategy.  *)
(*                                                                         *)
(* Positions: the code indexes bars from 0, sequences here start at 1, so  *)
(* code position i is index i+1.  Prices are integers; the float           *)
(* arithmetic of ATR and EMA is carried out in fixed point (SCALE).        *)
(***************************************************************************)
EXTENDS Integers, Sequences, FiniteSets, TLC

VARIABLES
    df,        \* the caller's frame handed to the structure engine
    other,     \* the frame of another instrument the caller also scans
    ret,       \* what the last structure call returned, with its per-bar streams
    calls,     \* the structure calls made so far: <<[bars, value]>>
    bool_fill, \* what the installed pandas puts in a boolean Series built without data
    strategy,  \* one SMCDiscountStrategy instance: its parameters and buy_signals
    inp,       \* the input of the discount evaluation at hand
    out,       \* what the last discount evaluation returned
    trueLog,   \* the entries of the calls that returned true, oldest first
    clock,     \* the number of generate_buy_signal calls made on the instance
    alerts_log,  \* the global alerts_log of src/newermain.py
    scan_pc,     \* where each thread that runs scan_stocks stands
    alert_clock  \* the number of alerts appended so far, the time of an entry

svars == <<df, other, ret, calls, bool_fill>>
dvars == <<strategy, inp, out, trueLog, clock>>
avars == <<alerts_log, scan_pc, alert_clock>>
vars == <<df, other, ret, calls, bool_fill, strategy, inp, out, trueLog, clock,
          alerts_log, scan_pc, alert_clock>>

(***************************************************************************)
(* Generic helpers.                                                        *)
(***************************************************************************)
SetMax(S) == CHOOSE x \in S : \A y \in S : y <= x
SetMin(S) == CHOOSE x \in S : \A y \in S : x <= y
MaxOf(a, b) == IF a >= b THEN a ELSE b
MinOf(a, b) == IF a <= b THEN a ELSE b
Abs(x) == IF x < 0 THEN -x ELSE x

\* pandas Series.tail(k) / list[-k:] for k >= 1
LastK(s, k) == IF Len(s) <= k THEN s ELSE SubSeq(s, Len(s) - k + 1, Len(s))

Unset == [set |-> FALSE, v |-> 0]
Level(x) == [set |-> TRUE, v |-> x]

(***************************************************************************)
(* Program constants of the structure engine.                              *)
(***************************************************************************)
MIN_BARS == 100
swing_length == 50
internal_length == 5
RECENT_PIVOTS == 10
OB_WARMUP == 50
EQ_RECENT == 5
ATR_WINDOW == 14
EMA_FAST == 20
EMA_SLOW == 50
\* threshold_multiplier = 0.1, kept as its reciprocal
EQ_THRESHOLD_DIV == 10
\* fixed-point scale of the float columns atr, ema_20, ema_50
SCALE == 10000

Highs(bars) == [k \in 1..Len(bars) |-> bars[k].h]
Lows(bars) == [k \in 1..Len(bars) |-> bars[k].l]

(***************************************************************************)
(* find_pivots: positions window <= i < len-window whose value equals the  *)
(* extreme of series[i-window .. i+window]; returned in position order.    *)
(***************************************************************************)
\* a comparison that lets only the first of several equal extremes through
IsPivot_first_only(series, window, pivot_type, k) ==
    LET win == {series[j] : j \in (k - window)..(k + window)}
    IN /\ IF pivot_type = "high" THEN series[k] = SetMax(win)
                                  ELSE series[k] = SetMin(win)
       /\ \A j \in (k - window)..(k - 1) : series[j] # series[k]

IsPivot(series, window, pivot_type, k) ==
    LET win == {series[j] : j \in (k - window)..(k + window)}
    IN IF pivot_type = "high" THEN series[k] = SetMax(win)
                              ELSE series[k] = SetMin(win)

\* range(window, len(series) - window), as indices
PivotRange(series, window) == (window + 1)..(Len(series) - window)

\* a pivot carries its position, its index label (the bar's timestamp) and its value
find_pivots(bars, series, window, pivot_type) ==
    LET marked == SelectSeq([k \in 1..Len(series) |-> k],
                            LAMBDA k : /\ k \in PivotRange(series, window)
                                       /\ IsPivot(series, window, pivot_type, k))
    IN [j \in 1..Len(marked) |->
           [pos |-> marked[j], t |-> bars[marked[j]].t, v |-> series[marked[j]]]]

(***************************************************************************)
(* pd.Series(index=df.index, dtype=bool).fillna(False): a Series built     *)
(* without data holds the missing value cast to bool, which is False up to *)
(* pandas 1.3 and True from pandas 1.4 on (NaN is truthy); no row is       *)
(* missing afterwards, so fillna changes nothing.  fill is that value, one *)
(* per installation.                                                       *)
(***************************************************************************)
BoolSeries(bars, fill) == [k \in 1..Len(bars) |-> fill]

(***************************************************************************)
(* detect_structure_break.  flag is signals.iloc[i] when the run returns:  *)
(* the value the Series was built with, or True once line 91 or 93 ran.    *)
(***************************************************************************)
\* a start state kept in a module-level variable: the run before leaves it behind
ClassifierStart_carried(prev) ==
    IF Len(prev) = 0 THEN [trend |-> 0, lsh |-> Unset, lsl |-> Unset]
    ELSE [trend |-> prev[Len(prev)].trend, lsh |-> prev[Len(prev)].lsh,
          lsl |-> prev[Len(prev)].lsl]

\* lines 68-70: the trend state every run starts from
ClassifierStart(prev) == [trend |-> 0, lsh |-> Unset, lsl |-> Unset]

\* lines 76-78: the running maximum over the recent High pivots at or before t
UpdateHigh(lsh, recent, t) ==
    LET el == {recent[j].v : j \in {j \in 1..Len(recent) : recent[j].t <= t}}
    IN IF el = {} THEN lsh
       ELSE IF lsh.set THEN Level(MaxOf(lsh.v, SetMax(el))) ELSE Level(SetMax(el))

\* lines 80-82: the running minimum over the recent Low pivots at or before t
UpdateLow(lsl, recent, t) ==
    LET el == {recent[j].v : j \in {j \in 1..Len(recent) : recent[j].t <= t}}
    IN IF el = {} THEN lsl
       ELSE IF lsl.set THEN Level(MinOf(lsl.v, SetMin(el))) ELSE Level(SetMin(el))

\* lines 72-99: one iteration of the loop, for one bar
ClassifyBar(st, bar, recent_highs, recent_lows, fill) ==
    LET lsh == UpdateHigh(st.lsh, recent_highs, bar.t)
        lsl == UpdateLow(st.lsl, recent_lows, bar.t)
    IN IF ~lsh.set
       THEN [before |-> st.trend, trend |-> st.trend, lsh |-> lsh, lsl |-> lsl,
             flag |-> fill]
       ELSE IF bar.c > lsh.v
       THEN [before |-> st.trend, trend |-> 1, lsh |-> lsh, lsl |-> lsl,
             flag |-> (fill \/ st.trend = -1 \/ st.trend = 0)]
       ELSE IF lsl.set /\ bar.c < lsl.v
       THEN [before |-> st.trend, trend |-> -1, lsh |-> lsh, lsl |-> lsl,
             flag |-> fill]
       ELSE [before |-> st.trend, trend |-> st.trend, lsh |-> lsh, lsl |-> lsl,
             flag |-> fill]

\* the loop over bars lo..hi in order, from state st (evaluated by halves to
\* keep the evaluation shallow; the bars are still visited first to last)
RECURSIVE ClassifyLoop(_, _, _, _, _, _, _)
ClassifyLoop(bars, recent_highs, recent_lows, st, lo, hi, fill) ==
    IF lo > hi THEN <<>>
    ELSE IF lo = hi THEN <<ClassifyBar(st, bars[lo], recent_highs, recent_lows, fill)>>
    ELSE LET mid == (lo + hi) \div 2
             left == ClassifyLoop(bars, recent_highs, recent_lows, st, lo, mid, fill)
             r == left[Len(left)]
         IN left \o ClassifyLoop(bars, recent_highs, recent_lows,
                                 [trend |-> r.trend, lsh |-> r.lsh, lsl |-> r.lsl],
                                 mid + 1, hi, fill)

\* the stream of a run that returned early: nothing tracked, the Series as built
NoRun(bars, fill) ==
    [k \in 1..Len(bars) |->
        [before |-> 0, trend |-> 0, lsh |-> Unset, lsl |-> Unset,
         flag |-> BoolSeries(bars, fill)[k]]]

\* a classifier that tracks every pivot handed in, not the recent ones only
detect_structure_break_all_pivots(bars, highs, lows, start, fill) ==
    IF Len(highs) < 2 \/ Len(lows) < 2 THEN NoRun(bars, fill)
    ELSE ClassifyLoop(bars, highs, lows, start, 1, Len(bars), fill)

\* lines 50-101; the result is the per-bar stream (flag = signals.iloc[i])
detect_structure_break(bars, highs, lows, start, fill) ==
    IF Len(highs) < 2 \/ Len(lows) < 2 THEN NoRun(bars, fill)
    ELSE LET recent_highs == LastK(highs, RECENT_PIVOTS)
             recent_lows == LastK(lows, RECENT_PIVOTS)
         IN IF Len(recent_highs) + Len(recent_lows) < 3 THEN NoRun(bars, fill)
            ELSE ClassifyLoop(bars, recent_highs, recent_lows, start, 1, Len(bars),
                              fill)

Flags(run) == [k \in 1..Len(run) |-> run[k].flag]

(***************************************************************************)
(* apply_confluence_filter: a flagged bar (from the second on) is kept     *)
(* only when its upper wick is longer than its lower wick.                 *)
(***************************************************************************)
current_bar_bullish(bar) ==
    (bar.h - MaxOf(bar.c, bar.o)) > (MinOf(bar.c, bar.o) - bar.l)

apply_confluence_filter(signals, bars) ==
    [k \in 1..Len(bars) |->
        IF k >= 2 /\ signals[k] /\ ~current_bar_bullish(bars[k]) THEN FALSE
        ELSE signals[k]]

(***************************************************************************)
(* detect_order_blocks.                                                    *)
(***************************************************************************)
LowsAtOrBefore(pivot_lows, t) == SelectSeq(pivot_lows, LAMBDA p : p.t <= t)

\* lines 129-147: a row keeps the value it was built with unless line 145 sets it
detect_order_blocks(bars, pivot_highs, pivot_lows, fill) ==
    [k \in 1..Len(bars) |->
        IF k < OB_WARMUP + 1 THEN BoolSeries(bars, fill)[k]
        ELSE LET before == LowsAtOrBefore(pivot_lows, bars[k].t)
             IN IF Len(before) = 0 THEN BoolSeries(bars, fill)[k]
                ELSE LET last_swing_low == before[Len(before)].v
                     IN \/ BoolSeries(bars, fill)[k]
                        \/ /\ bars[k].c > last_swing_low
                           /\ bars[k - 1].l <= last_swing_low]


(***************************************************************************)
(* ta.volatility.average_true_range(High, Low, Close, window=14): zero for *)
(* the first window-1 bars, the mean true range of the first window bars   *)
(* at bar window, Wilder's smoothing afterwards.  Values are scaled by     *)
(* SCALE.                                                                  *)
(***************************************************************************)
TrueRange(bars, k) ==
    IF k = 1 THEN bars[1].h - bars[1].l
    ELSE MaxOf(bars[k].h - bars[k].l,
               MaxOf(Abs(bars[k].h - bars[k - 1].c), Abs(bars[k].l - bars[k - 1].c)))

\* the sum of s[lo..hi]
RECURSIVE SeqSum(_, _, _)
SeqSum(s, lo, hi) ==
    IF lo > hi THEN 0
    ELSE IF lo = hi THEN s[lo]
    ELSE SeqSum(s, lo, (lo + hi) \div 2) + SeqSum(s, (lo + hi) \div 2 + 1, hi)

AtrStep(bars, k, prev) ==
    IF k < ATR_WINDOW THEN 0
    ELSE IF k = ATR_WINDOW
    THEN (SeqSum([j \in 1..ATR_WINDOW |-> TrueRange(bars, j)], 1, ATR_WINDOW) * SCALE)
             \div ATR_WINDOW
    ELSE (prev * (ATR_WINDOW - 1) + TrueRange(bars, k) * SCALE) \div ATR_WINDOW

\* the values for bars lo..hi in order, prev being the value of bar lo-1
RECURSIVE AtrScan(_, _, _, _)
AtrScan(bars, prev, lo, hi) ==
    IF lo > hi THEN <<>>
    ELSE IF lo = hi THEN <<AtrStep(bars, lo, prev)>>
    ELSE LET mid == (lo + hi) \div 2
             left == AtrScan(bars, prev, lo, mid)
         IN left \o AtrScan(bars, left[Len(left)], mid + 1, hi)

average_true_range(bars) == AtrScan(bars, 0, 1, Len(bars))

(***************************************************************************)
(* ta.trend.ema_indicator(Close, window): ewm(span=window, adjust=False,   *)
(* min_periods=window).mean(); undefined (NaN) before bar window.  Values  *)
(* are scaled by SCALE.                                                    *)
(***************************************************************************)
EmaStep(bars, window, k, prev) ==
    IF k = 1 THEN bars[1].c * SCALE
    ELSE ((window - 1) * prev + 2 * bars[k].c * SCALE) \div (window + 1)

\* the values for bars lo..hi in order, prev being the value of bar lo-1
RECURSIVE EmaScan(_, _, _, _, _)
EmaScan(bars, window, prev, lo, hi) ==
    IF lo > hi THEN <<>>
    ELSE IF lo = hi THEN <<EmaStep(bars, window, lo, prev)>>
    ELSE LET mid == (lo + hi) \div 2
             left == EmaScan(bars, window, prev, lo, mid)
         IN left \o EmaScan(bars, window, left[Len(left)], mid + 1, hi)

ema_indicator(bars, window) == EmaScan(bars, window, 0, 1, Len(bars))

\* line 186: a comparison with NaN (a bar before either window) is False
trend_bullish(ema_20, ema_50) ==
    [k \in 1..Len(ema_20) |->
        k >= EMA_FAST /\ k >= EMA_SLOW /\ ema_20[k] > ema_50[k]]

(***************************************************************************)
(* detect_equal_levels: over the last 5 Low pivots, every pair closer than *)
(* 0.1 * mean(atr) marks the rows carrying the later pivot's timestamp.    *)
(***************************************************************************)
EqualTimes(bars, lows, atr) ==
    LET recent_lows == LastK(lows, EQ_RECENT)
    IN {recent_lows[j].t : j \in
           {j \in 1..Len(recent_lows) :
               \E i \in 1..(j - 1) :
                   Abs(recent_lows[i].v - recent_lows[j].v) * SCALE
                       * EQ_THRESHOLD_DIV * Len(bars) < SeqSum(atr, 1, Len(atr))}}

detect_equal_levels(bars, highs, lows, atr, fill) ==
    LET times == EqualTimes(bars, lows, atr)
    IN [k \in 1..Len(bars) |-> BoolSeries(bars, fill)[k] \/ bars[k].t \in times]

(***************************************************************************)
(* check_buy_signal(df) of the structure engine.                           *)
(***************************************************************************)
\* line 20: df_copy = df.copy(), a frame of its own
DfCopy(d) == [frame |-> d, alias |-> FALSE]

\* lines 21, 183, 184: the columns the call adds to its working frame
AddColumns(frame) == [frame EXCEPT !.cols = @ \cup {"atr", "ema_20", "ema_50"}]

\* the caller's frame once the call is over
CallerFrame(d, copy) == IF copy.alias THEN AddColumns(copy.frame) ELSE d

\* lines 174-180
combined_signals(sw, inl, swob, inob, eq) ==
    [k \in 1..Len(sw) |-> sw[k] \/ inl[k] \/ swob[k] \/ inob[k] \/ eq[k]]

\* an answer taken over every bar, not the latest one only
final_value_any(combined, trend) ==
    \E k \in 1..Len(combined) : combined[k] /\ trend[k]

\* lines 189-195
final_value(combined, trend) ==
    IF Len(combined) > 0 THEN combined[Len(combined)] /\ trend[Len(combined)]
    ELSE FALSE

\* a minimum that lets a frame one bar short through
InsufficientData_one_short(d) == Len(d.bars) < MIN_BARS - 1

\* line 16
InsufficientData(d) == Len(d.bars) < MIN_BARS

NoPivots ==
    [swing_highs |-> <<>>, swing_lows |-> <<>>, internal_highs |-> <<>>,
     internal_lows |-> <<>>]

\* lines 42-48: the four pivot sets of a frame
Pivots(bars) ==
    [swing_highs |-> find_pivots(bars, Highs(bars), swing_length \div 2, "high"),
     swing_lows |-> find_pivots(bars, Lows(bars), swing_length \div 2, "low"),
     internal_highs |-> find_pivots(bars, Highs(bars), internal_length \div 2, "high"),
     internal_lows |-> find_pivots(bars, Lows(bars), internal_length \div 2, "low")]

\* lines 104-171: the five signal streams, from the pivots
Streams(bars, pv, prev, fill) ==
    [swing |-> detect_structure_break(bars, pv.swing_highs, pv.swing_lows,
                                      ClassifierStart(prev.swing), fill),
     internal |-> detect_structure_break(bars, pv.internal_highs, pv.internal_lows,
                                         ClassifierStart(prev.internal), fill),
     swing_ob |-> detect_order_blocks(bars, pv.swing_highs, pv.swing_lows, fill),
     internal_ob |-> detect_order_blocks(bars, pv.internal_highs, pv.internal_lows,
                                         fill),
     eq |-> detect_equal_levels(bars, pv.swing_highs, pv.swing_lows,
                                average_true_range(bars), fill),
     ema_20 |-> ema_indicator(bars, EMA_FAST),
     ema_50 |-> ema_indicator(bars, EMA_SLOW)]

\* lines 126, 174-195: the filter on the internal stream, the union, the answer
Outcome(d, copy, pv, st) ==
    LET bars == copy.frame.bars
        internal_kept == apply_confluence_filter(Flags(st.internal), bars)
        combined == combined_signals(Flags(st.swing), internal_kept, st.swing_ob,
                                     st.internal_ob, st.eq)
        trend == trend_bullish(st.ema_20, st.ema_50)
    IN [kind |-> "value", value |-> final_value(combined, trend),
        work |-> {"atr", "pivots", "structure", "order_blocks", "equal_levels", "ema"},
        frame |-> CallerFrame(d, copy),
        swing |-> st.swing, internal |-> st.internal, internal_kept |-> internal_kept,
        swing_ob |-> st.swing_ob, internal_ob |-> st.internal_ob, eq |-> st.eq,
        ema_20 |-> st.ema_20, ema_50 |-> st.ema_50, pv |-> pv]

\* lines 6-195.  Each stage is computed once and handed on as a value.
check_buy_signal(d, prev, fill) ==
    IF InsufficientData(d)
    THEN [kind |-> "value", value |-> FALSE, work |-> {}, frame |-> d,
          swing |-> <<>>, internal |-> <<>>, internal_kept |-> <<>>,
          swing_ob |-> <<>>, internal_ob |-> <<>>, eq |-> <<>>,
          ema_20 |-> <<>>, ema_50 |-> <<>>, pv |-> NoPivots]
    ELSE CHOOSE r \in
             UNION {UNION {{Outcome(d, DfCopy(d), pv, st)} :
                              st \in {Streams(DfCopy(d).frame.bars, pv, prev, fill)}} :
                       pv \in {Pivots(DfCopy(d).frame.bars)}} : TRUE

(***************************************************************************)
(* SMCDiscountStrategy (src/smc.py).  Prices and volumes are integers;     *)
(* the midline (hh + ll) / 2 is compared through its double, and the       *)
(* take-profit and stop-loss levels are kept in hundredths.                *)
(***************************************************************************)
DEFAULT_LOOKBACK == 30
DEFAULT_MIN_VOLUME == 100000
DEFAULT_TP_PERCENT == 5
DEFAULT_SL_PERCENT == 2
MAX_SIGNALS == 5
MIN_ROWS == 30
\* the calls a caller makes within one day, timestamps being call numbers
CallsPerDay == 2

\* lines 165-174
NewStrategy(lookback, min_volume, tp_percent, sl_percent) ==
    [lookback |-> lookback, min_volume |-> min_volume, tp_percent |-> tp_percent,
     sl_percent |-> sl_percent, buy_signals |-> <<>>, max_signals |-> MAX_SIGNALS]

SeqMax(data) == SetMax({data[j] : j \in 1..Len(data)})
SeqMin(data) == SetMin({data[j] : j \in 1..Len(data)})

\* lines 176-180 (period >= 1)
highest(data, period) ==
    IF Len(data) < period THEN (IF data # <<>> THEN SeqMax(data) ELSE 0)
    ELSE SeqMax(LastK(data, period))

\* lines 182-186 (period >= 1)
lowest(data, period) ==
    IF Len(data) < period THEN (IF data # <<>> THEN SeqMin(data) ELSE 0)
    ELSE SeqMin(LastK(data, period))

\* a discount zone that includes the midline itself
is_in_discount_zone_inclusive(self, high_data, low_data, close_price) ==
    LET hh == highest(high_data, self.lookback)
        ll == lowest(low_data, self.lookback)
    IN 2 * close_price <= hh + ll

\* lines 188-194: close_price < (hh + ll) / 2
is_in_discount_zone(self, high_data, low_data, close_price) ==
    LET hh == highest(high_data, self.lookback)
        ll == lowest(low_data, self.lookback)
    IN 2 * close_price < hh + ll

\* lines 202-217
is_bullish_engulfing(open_prices, close_prices) ==
    IF Len(open_prices) < 2 \/ Len(close_prices) < 2 THEN FALSE
    ELSE LET prev_bearish == close_prices[Len(close_prices) - 1]
                                 < open_prices[Len(open_prices) - 1]
             curr_bullish == close_prices[Len(close_prices)]
                                 > open_prices[Len(open_prices)]
             engulfed == /\ open_prices[Len(open_prices)]
                                 < close_prices[Len(close_prices) - 1]
                         /\ close_prices[Len(close_prices)]
                                 > open_prices[Len(open_prices) - 1]
         IN prev_bearish /\ curr_bullish /\ engulfed

\* lines 219-221
volume_condition_met(self, volume) == volume > self.min_volume

\* line 256: timestamp.strftime('%Y-%m-%d') keeps the day of the timestamp
strftime_day(timestamp) == timestamp \div CallsPerDay

\* lines 255-259: the day, the price with two decimals (hundredths), int(volume)
SignalEntry(price, volume, timestamp) ==
    [time |-> strftime_day(timestamp), price |-> price * 100, volume |-> volume]

\* a history that gives up its newest entry when it is full
log_buy_signal_drop_newest(self, price, volume, timestamp) ==
    LET appended == Append(self.buy_signals, SignalEntry(price, volume, timestamp))
    IN [self EXCEPT !.buy_signals =
           IF Len(appended) > self.max_signals
           THEN SubSeq(appended, 1, Len(appended) - 1) ELSE appended]

\* lines 250-265: the instance after the call
log_buy_signal(self, price, volume, timestamp) ==
    LET appended == Append(self.buy_signals, SignalEntry(price, volume, timestamp))
    IN [self EXCEPT !.buy_signals =
           IF Len(appended) > self.max_signals THEN Tail(appended) ELSE appended]

\* a combiner satisfied by any one of the three conditions
generate_buy_signal_any(self, high_data, low_data, open_prices, close_prices, volume, timestamp) ==
    IF Len(close_prices) < 2 THEN [ret |-> FALSE, self |-> self]
    ELSE LET current_close == close_prices[Len(close_prices)]
             in_discount == is_in_discount_zone(self, high_data, low_data, current_close)
             bullish_engulfing == is_bullish_engulfing(open_prices, close_prices)
             volume_ok == volume_condition_met(self, volume)
             buy_signal == in_discount \/ bullish_engulfing \/ volume_ok
         IN [ret |-> buy_signal,
             self |-> IF buy_signal
                      THEN log_buy_signal(self, current_close, volume, timestamp)
                      ELSE self]

\* lines 223-242: the value returned and the instance after the call
generate_buy_signal(self, high_data, low_data, open_prices, close_prices, volume, timestamp) ==
    IF Len(close_prices) < 2 THEN [ret |-> FALSE, self |-> self]
    ELSE LET current_close == close_prices[Len(close_prices)]
             in_discount == is_in_discount_zone(self, high_data, low_data, current_close)
             bullish_engulfing == is_bullish_engulfing(open_prices, close_prices)
             volume_ok == volume_condition_met(self, volume)
             buy_signal == in_discount /\ bullish_engulfing /\ volume_ok
         IN [ret |-> buy_signal,
             self |-> IF buy_signal
                      THEN log_buy_signal(self, current_close, volume, timestamp)
                      ELSE self]

\* lines 244-248, in hundredths
calculate_tp_sl(self, entry_price) ==
    <<entry_price * (100 + self.tp_percent), entry_price * (100 - self.sl_percent)>>

(***************************************************************************)
(* check_buy_signal(ticker) of src/newermain.py, from the downloaded       *)
(* frame on.  A result is a record whose DOMAIN is the dict's key set.     *)
(***************************************************************************)
\* lines 100-111: the dict built from the signal
StrategyResult(self, buy, close_data, volume) ==
    IF buy
    THEN LET price == close_data[Len(close_data)]
             tpsl == calculate_tp_sl(self, price)
         IN [ticker |-> "T", price |-> price, take_profit |-> tpsl[1],
             stop_loss |-> tpsl[2], volume |-> volume, signal |-> TRUE]
    ELSE [ticker |-> "T", price |-> close_data[Len(close_data)], signal |-> FALSE]

\* a minimum that turns away a frame of exactly MIN_ROWS rows
InsufficientRows_inclusive(rows) == Len(rows) = 0 \/ Len(rows) <= MIN_ROWS

\* line 87
InsufficientRows(rows) == Len(rows) = 0 \/ Len(rows) < MIN_ROWS

\* lines 85-111
newermain_check_buy_signal(rows, now) ==
    IF InsufficientRows(rows) THEN [ticker |-> "T", status |-> "insufficient_data"]
    ELSE LET self == NewStrategy(DEFAULT_LOOKBACK, DEFAULT_MIN_VOLUME,
                                 DEFAULT_TP_PERCENT, DEFAULT_SL_PERCENT)
             high_data == [k \in 1..Len(rows) |-> rows[k].h]
             low_data == [k \in 1..Len(rows) |-> rows[k].l]
             open_data == [k \in 1..Len(rows) |-> rows[k].o]
             close_data == [k \in 1..Len(rows) |-> rows[k].c]
             volume == rows[Len(rows)].vol
             g == generate_buy_signal(self, high_data, low_data, open_data,
                                      close_data, volume, now)
         IN StrategyResult(g.self, g.ret, close_data, volume)

(***************************************************************************)
(* The callers' inputs: a frame is a prefix of plain bars followed by a    *)
(* few freely chosen latest bars.                                          *)
(***************************************************************************)
PrefixLen == 99
MaxTail == 1
MaxCalls == 3

OHLCV == {"Open", "High", "Low", "Close", "Volume"}

\* a plain bar around level v
Plain(t, v) == [t |-> t, o |-> v, h |-> v + 1, l |-> v - 1, c |-> v]

Stamp(b, t) == [t |-> t, o |-> b.o, h |-> b.h, l |-> b.l, c |-> b.c]

\* a close above the level-10 highs, upper wick longer than lower wick
BarUp == [o |-> 10, h |-> 14, l |-> 10, c |-> 12]
\* a close below the level-10 lows
BarDown == [o |-> 10, h |-> 10, l |-> 5, c |-> 6]
\* a close above every high of every prefix, lower wick longer than upper wick
BarHigh == [o |-> 20, h |-> 56, l |-> 10, c |-> 55]

BarChoices == {BarUp, BarDown, BarHigh}

PrefixShapes == {"flat", "step_down", "ramp", "early_break"}

\* flat: level 10 throughout
\* step_down: level 20, then level 10, then a close above the level-10 highs
\* ramp: stairs up to a single top at bar 50 and down again
\* early_break: level 10 with a close above it at bar 90 and one below at bar 98
PrefixBar(shape, k) ==
    CASE shape = "flat" -> Plain(k, 10)
      [] shape = "step_down" -> IF k = 99 THEN Stamp(BarUp, k)
                                ELSE Plain(k, IF k <= 50 THEN 20 ELSE 10)
      [] shape = "ramp" -> Plain(k, 20 + (IF k <= 50 THEN k ELSE 100 - k) \div 5)
      [] OTHER -> IF k = 90 THEN Stamp(BarUp, k)
                  ELSE IF k = 98 THEN Stamp(BarDown, k) ELSE Plain(k, 10)

Prefix(shape) == [k \in 1..PrefixLen |-> PrefixBar(shape, k)]

Ascending(bars) == \A k \in 1..(Len(bars) - 1) : bars[k].t < bars[k + 1].t

\* the other instrument: level 10 throughout, then two closes above it
OtherBars == [k \in 1..MIN_BARS |->
                 IF k < MIN_BARS - 1 THEN Plain(k, 10) ELSE Stamp(BarUp, k)]

NoReturn ==
    [kind |-> "none", value |-> FALSE, work |-> {}, frame |-> [bars |-> <<>>, cols |-> {}],
     swing |-> <<>>, internal |-> <<>>, internal_kept |-> <<>>,
     swing_ob |-> <<>>, internal_ob |-> <<>>, eq |-> <<>>,
     ema_20 |-> <<>>, ema_50 |-> <<>>, pv |-> NoPivots]

\* the threads that run scan_stocks: the background scanner and the handlers
\* of /scan requests
ScanThreads == {"background", "request_1", "request_2"}

\* newermain.py as loaded: an empty log, no scan under way
ScanIdle ==
    /\ alerts_log = <<>>
    /\ scan_pc = [t \in ScanThreads |-> "idle"]
    /\ alert_clock = 0

NoInput == [kind |-> "none"]
NoOut == [kind |-> "none", ret |-> FALSE, tpsl |-> <<>>, result |-> [ticker |-> "T"]]

\* the discount engine at rest
DiscountIdle ==
    /\ strategy = NewStrategy(DEFAULT_LOOKBACK, DEFAULT_MIN_VOLUME,
                              DEFAULT_TP_PERCENT, DEFAULT_SL_PERCENT)
    /\ inp = NoInput
    /\ out = NoOut
    /\ trueLog = <<>>
    /\ clock = 0

\* the structure engine at rest
StructIdle ==
    /\ df = [bars |-> <<>>, cols |-> OHLCV]
    /\ other = [bars |-> <<>>, cols |-> OHLCV]
    /\ ret = NoReturn
    /\ calls = <<>>
    /\ bool_fill = FALSE

StructInit ==
    /\ df \in {[bars |-> Prefix(s), cols |-> OHLCV] : s \in PrefixShapes}
    /\ other = [bars |-> OtherBars, cols |-> OHLCV]
    /\ ret = NoReturn
    /\ calls = <<>>
    /\ bool_fill \in BOOLEAN
    /\ DiscountIdle
    /\ ScanIdle

\* the feed delivers the next bar of the instrument
NextBar ==
    /\ calls = <<>>
    /\ Len(df.bars) < PrefixLen + MaxTail
    /\ Ascending(df.bars)
    /\ \E b \in BarChoices :
          df' = [df EXCEPT !.bars = Append(@, Stamp(b, @[Len(@)].t + 1))]
    /\ UNCHANGED <<other, ret, calls, bool_fill>>
    /\ UNCHANGED dvars
    /\ UNCHANGED avars

\* the feed repeats the timestamp of the bar before: not in ascending order
StaleBar ==
    /\ calls = <<>>
    /\ Len(df.bars) < PrefixLen + MaxTail
    /\ Ascending(df.bars)
    /\ df' = [df EXCEPT !.bars = Append(@, Stamp(BarUp, @[Len(@)].t))]
    /\ UNCHANGED <<other, ret, calls, bool_fill>>
    /\ UNCHANGED dvars
    /\ UNCHANGED avars

\* one call of check_buy_signal(df)
CheckBuySignal ==
    /\ Len(calls) < MaxCalls
    /\ LET r == check_buy_signal(df, ret, bool_fill)
       IN /\ ret' = r
          /\ df' = r.frame
          /\ calls' = Append(calls, [bars |-> df.bars, value |-> r.value])
    /\ UNCHANGED <<other, bool_fill>>
    /\ UNCHANGED dvars
    /\ UNCHANGED avars

\* the caller turns to its other instrument, once the frame at hand is checked
SwitchInstrument ==
    /\ calls # <<>>
    /\ Len(calls) < MaxCalls
    /\ calls[Len(calls)].bars = df.bars
    /\ df' = other
    /\ other' = df
    /\ UNCHANGED <<ret, calls, bool_fill>>
    /\ UNCHANGED dvars
    /\ UNCHANGED avars

StructNext == NextBar \/ StaleBar \/ CheckBuySignal \/ SwitchInstrument

SpecStruct == StructInit /\ [][StructNext]_vars

(***************************************************************************)
(* The discount engine's inputs.                                           *)
(***************************************************************************)
MaxLen == 2
ShortLookback == 1
MaxHistoryCalls == 7

\* (open, close) of a bar: bearish, bullish, doji, engulfing, and two whose
\* body only touches the body before
OCKinds == {<<3, 2>>, <<2, 3>>, <<2, 2>>, <<1, 4>>, <<1, 3>>, <<2, 4>>}
\* (high, low) of a bar: with a close of 4 the midline is 4, 5.5 or 2.5
HLKinds == {<<8, 0>>, <<8, 3>>, <<5, 0>>}

DBars == {[o |-> oc[1], c |-> oc[2], h |-> hl[1], l |-> hl[2]] :
             oc \in OCKinds, hl \in HLKinds}

BarSeqs(n) == UNION {[1..m -> DBars] : m \in 0..n}

Volumes == {DEFAULT_MIN_VOLUME, DEFAULT_MIN_VOLUME + 1}

\* a list without its last element: a caller's sequence that came out short
DropLast(s) == IF s = <<>> THEN s ELSE SubSeq(s, 1, Len(s) - 1)

ListInput(bars, cut, volume) ==
    [kind |-> "lists",
     highs |-> IF cut = "highs" THEN DropLast([k \in 1..Len(bars) |-> bars[k].h])
               ELSE [k \in 1..Len(bars) |-> bars[k].h],
     lows |-> [k \in 1..Len(bars) |-> bars[k].l],
     opens |-> IF cut = "opens" THEN DropLast([k \in 1..Len(bars) |-> bars[k].o])
               ELSE [k \in 1..Len(bars) |-> bars[k].o],
     closes |-> IF cut = "closes" THEN DropLast([k \in 1..Len(bars) |-> bars[k].c])
                ELSE [k \in 1..Len(bars) |-> bars[k].c],
     volume |-> volume]

ListInputs ==
    {ListInput(bars, cut, volume) :
        bars \in BarSeqs(MaxLen), cut \in {"none", "highs", "opens", "closes"},
        volume \in Volumes}

\* Scenario C of the specification
ScenarioC ==
    [kind |-> "lists",
     highs |-> [k \in 1..30 |-> IF k <= 29 THEN 110 ELSE 100],
     lows |-> [k \in 1..30 |-> 90],
     opens |-> <<105, 95>>,
     closes |-> <<95, 105>>,
     volume |-> 200000]

\* a downloaded frame: plain rows, then up to MaxLen free rows
PlainRow == [o |-> 2, c |-> 2, h |-> 8, l |-> 3, vol |-> DEFAULT_MIN_VOLUME + 1]

FrameInput(fill, bars, volume) ==
    [kind |-> "frame",
     rows |-> [k \in 1..fill |-> PlainRow]
                  \o [k \in 1..Len(bars) |->
                         [o |-> bars[k].o, c |-> bars[k].c, h |-> bars[k].h,
                          l |-> bars[k].l, vol |-> volume]]]

FrameInputs ==
    {FrameInput(fill, bars, volume) :
        fill \in {0, MIN_ROWS - 2, MIN_ROWS - 1}, bars \in BarSeqs(MaxLen),
        volume \in Volumes}

Lookbacks == {ShortLookback, DEFAULT_LOOKBACK}

\* generate_buy_signal on the instance, then the levels for a signal
\* (src/smc.py lines 300-306); the call's timestamp is the call's number
GenerateOn(i) ==
    LET g == generate_buy_signal(strategy, i.highs, i.lows, i.opens, i.closes,
                                 i.volume, clock + 1)
    IN /\ strategy' = g.self
       /\ out' = [kind |-> "signal", ret |-> g.ret,
                  tpsl |-> IF g.ret
                           THEN calculate_tp_sl(g.self, i.closes[Len(i.closes)])
                           ELSE <<>>,
                  result |-> [ticker |-> "T"]]
       /\ inp' = i
       /\ clock' = clock + 1
       /\ trueLog' = IF g.ret
                     THEN Append(trueLog,
                                 SignalEntry(i.closes[Len(i.closes)], i.volume,
                                             clock + 1))
                     ELSE trueLog

DiscountInit ==
    /\ StructIdle
    /\ ScanIdle
    /\ strategy \in {NewStrategy(lb, DEFAULT_MIN_VOLUME, DEFAULT_TP_PERCENT,
                                 DEFAULT_SL_PERCENT) : lb \in Lookbacks}
    /\ inp \in ListInputs \cup {ScenarioC} \cup FrameInputs
    /\ out = NoOut
    /\ trueLog = <<>>
    /\ clock = 0

\* the caller evaluates the lists at hand on its instance
GenerateBuySignal ==
    /\ inp.kind = "lists"
    /\ out.kind = "none"
    /\ GenerateOn(inp)
    /\ UNCHANGED svars
    /\ UNCHANGED avars

\* check_buy_signal(ticker) on the downloaded frame at hand
CheckTicker ==
    /\ inp.kind = "frame"
    /\ out.kind = "none"
    /\ out' = [kind |-> "dict", ret |-> FALSE, tpsl |-> <<>>,
               result |-> newermain_check_buy_signal(inp.rows, clock + 1)]
    /\ UNCHANGED <<strategy, inp, trueLog, clock>>
    /\ UNCHANGED svars
    /\ UNCHANGED avars

DiscountNext == GenerateBuySignal \/ CheckTicker

SpecDiscount == DiscountInit /\ [][DiscountNext]_vars

(***************************************************************************)
(* One instance called again and again.                                    *)
(***************************************************************************)
Pair(prev, cur) == <<prev, cur>>

\* two qualifying inputs and one that does not qualify
HistoryInputs ==
    {ListInput(Pair([o |-> 3, c |-> 2, h |-> 8, l |-> 3], [o |-> 1, c |-> 4, h |-> 8, l |-> 3]),
               "none", DEFAULT_MIN_VOLUME + 1),
     ListInput(Pair([o |-> 3, c |-> 2, h |-> 8, l |-> 3], [o |-> 1, c |-> 4, h |-> 8, l |-> 3]),
               "none", DEFAULT_MIN_VOLUME + 2),
     ListInput(Pair([o |-> 3, c |-> 2, h |-> 8, l |-> 3], [o |-> 1, c |-> 4, h |-> 8, l |-> 3]),
               "none", DEFAULT_MIN_VOLUME)}

HistoryInit ==
    /\ StructIdle
    /\ DiscountIdle
    /\ ScanIdle

RepeatedSignalCall ==
    /\ clock < MaxHistoryCalls
    /\ \E i \in HistoryInputs : GenerateOn(i)
    /\ UNCHANGED svars
    /\ UNCHANGED avars

HistoryNext == RepeatedSignalCall

SpecHistory == HistoryInit /\ [][HistoryNext]_vars

(***************************************************************************)
(* scan_stocks of src/newermain.py run by several threads on the shared    *)
(* alerts_log.  list.append, len and list.pop are each atomic; a thread    *)
(* can be preempted between any two of them.  A stock without a signal     *)
(* changes nothing and is left out.                                        *)
(***************************************************************************)
MAX_LOG_LENGTH == 100
MaxAlerts == 103

\* lines 132-136: the entry appended for an alert; time is the alert's number
AlertEntry(n) == [time |-> n]

\* a length test that lets the log grow one entry beyond the maximum
NeedsTrim_one_over(log) == Len(log) > MAX_LOG_LENGTH + 1

\* line 138
NeedsTrim(log) == Len(log) > MAX_LOG_LENGTH

\* lines 154-156, 165-166: a thread enters scan_stocks
StartScan(t) ==
    /\ scan_pc[t] = "idle"
    /\ scan_pc' = [scan_pc EXCEPT ![t] = "scanning"]
    /\ UNCHANGED <<alerts_log, alert_clock>>

\* lines 132-136: alerts_log.append(...) for a stock with a signal
AppendAlert(t) ==
    /\ scan_pc[t] = "scanning"
    /\ alert_clock < MaxAlerts
    /\ alerts_log' = Append(alerts_log, AlertEntry(alert_clock + 1))
    /\ alert_clock' = alert_clock + 1
    /\ scan_pc' = [scan_pc EXCEPT ![t] = "appended"]

\* line 138: if len(alerts_log) > MAX_LOG_LENGTH
LengthCheck(t) ==
    /\ scan_pc[t] = "appended"
    /\ scan_pc' = [scan_pc EXCEPT ![t] = IF NeedsTrim(alerts_log) THEN "trimming"
                                        ELSE "scanning"]
    /\ UNCHANGED <<alerts_log, alert_clock>>

\* line 139: alerts_log.pop(0)
PopOldest(t) ==
    /\ scan_pc[t] = "trimming"
    /\ alerts_log' = Tail(alerts_log)
    /\ scan_pc' = [scan_pc EXCEPT ![t] = "scanning"]
    /\ UNCHANGED alert_clock

\* lines 148-149: the loop over WATCHLIST is over
EndScan(t) ==
    /\ scan_pc[t] = "scanning"
    /\ scan_pc' = [scan_pc EXCEPT ![t] = "idle"]
    /\ UNCHANGED <<alerts_log, alert_clock>>

ScanInit ==
    /\ StructIdle
    /\ DiscountIdle
    /\ ScanIdle

ScanNext ==
    \E t \in ScanThreads :
        /\ \/ StartScan(t)
           \/ AppendAlert(t)
           \/ LengthCheck(t)
           \/ PopOldest(t)
           \/ EndScan(t)
        /\ UNCHANGED svars
        /\ UNCHANGED dvars

SpecScan == ScanInit /\ [][ScanNext]_vars

(***************************************************************************)
(* Properties of the discount engine.                                      *)
(***************************************************************************)
\* the values of the trailing min(period, length) elements of a non-empty list
Trailing(data, period) ==
    {data[k] : k \in (Len(data) - MinOf(period, Len(data)) + 1)..Len(data)}

\* the three conditions of the strategy, written out on the input at hand
AllConditionsHold ==
    /\ Len(inp.closes) >= 2
    /\ Len(inp.opens) >= 2
    /\ LET c == inp.closes
           o == inp.opens
           hh == SetMax(Trailing(inp.highs, strategy.lookback))
           ll == SetMin(Trailing(inp.lows, strategy.lookback))
       IN /\ 2 * c[Len(c)] < hh + ll
          /\ c[Len(c) - 1] < o[Len(o) - 1]
          /\ c[Len(c)] > o[Len(o)]
          /\ o[Len(o)] < c[Len(c) - 1]
          /\ c[Len(c)] > o[Len(o) - 1]
          /\ inp.volume > strategy.min_volume

\* C2: generate_buy_signal returns true exactly when there are at least two
\* closes, the latest close is strictly below the midline of the highest high
\* and lowest low over the trailing min(lookback, length) bars, the last two
\* candles form a strict bullish engulfing and the volume is strictly above
\* min_volume; a close on the midline, a body that only touches the body
\* before, or a volume equal to min_volume give false.
SignalIffAllConditions ==
    (out.kind = "signal" /\ inp.highs # <<>> /\ inp.lows # <<>>)
        => (out.ret <=> AllConditionsHold)

\* a true signal on a list longer than the lookback: the trailing window counts
SignalOnTrailingWindow ==
    /\ out.kind = "signal"
    /\ out.ret
    /\ strategy.lookback < Len(inp.highs)
    /\ inp.highs[1] # inp.highs[Len(inp.highs)]

\* C3: buy_signals holds exactly the entries of the last min(k, 5) calls that
\* returned true, oldest first; a call that returns false leaves it as it
\* was; it never holds more than 5 entries.
HistoryIsLastTrueCalls ==
    /\ strategy.buy_signals = LastK(trueLog, MAX_SIGNALS)
    /\ Len(strategy.buy_signals) <= MAX_SIGNALS

\* a sixth true call has pushed the oldest entry out, and a false call was made
OldestEntryDropped ==
    /\ Len(trueLog) = MAX_SIGNALS + 1
    /\ clock = MAX_SIGNALS + 2
    /\ ~out.ret
    /\ Len(strategy.buy_signals) = MAX_SIGNALS
    /\ strategy.buy_signals[1] = trueLog[2]

ScenarioCEvaluated ==
    /\ inp = ScenarioC
    /\ out.kind = "signal"
    /\ strategy.lookback = DEFAULT_LOOKBACK

\* C4 as stated: Scenario C gives signal = true with take-profit 110.25 and
\* stop-loss 102.90.
ScenarioCSignals ==
    ScenarioCEvaluated => (out.ret /\ out.tpsl = <<11025, 10290>>)

\* C4: Scenario C gives signal = false (the close 105 is not below the midline
\* 100 and the open 95 is not below the close before, 95), so no levels are
\* computed and nothing is logged; the levels of an entry at 105 are 110.25
\* and 102.90.
ScenarioCNoSignal ==
    ScenarioCEvaluated =>
        /\ ~out.ret
        /\ out.tpsl = <<>>
        /\ strategy.buy_signals = <<>>
        /\ calculate_tp_sl(strategy, inp.closes[Len(inp.closes)]) = <<11025, 10290>>

\* Scenario C has been evaluated with its volume above the minimum
ScenarioCReached == ScenarioCEvaluated /\ inp.volume > strategy.min_volume

\* C5 as stated: with fewer than 2 rows the evaluation returns a result with
\* signal = false and price = the last close.
FewRowsFalseSignal ==
    (out.kind = "dict" /\ Len(inp.rows) < 2) =>
        /\ "signal" \in DOMAIN out.result
        /\ ~out.result.signal
        /\ Len(inp.rows) >= 1 => out.result.price = inp.rows[Len(inp.rows)].c

\* C5: check_buy_signal(ticker) returns {ticker, status: insufficient_data},
\* with neither a signal nor a price, exactly when the frame has fewer than 30
\* rows; from 30 rows on the result has a signal and price = the last close;
\* generate_buy_signal with fewer than 2 closes returns false and logs nothing.
FewRowsInsufficientData ==
    /\ out.kind = "dict" =>
          /\ Len(inp.rows) < MIN_ROWS
                <=> out.result = [ticker |-> "T", status |-> "insufficient_data"]
          /\ Len(inp.rows) >= MIN_ROWS =>
                /\ "signal" \in DOMAIN out.result
                /\ out.result.price = inp.rows[Len(inp.rows)].c
    /\ (out.kind = "signal" /\ Len(inp.closes) < 2) =>
          /\ ~out.ret
          /\ strategy.buy_signals = <<>>

\* a frame of one row has been checked
OneRowChecked ==
    /\ out.kind = "dict"
    /\ Len(inp.rows) = 1
    /\ DOMAIN out.result = {"ticker", "status"}

MismatchedLists ==
    /\ inp.kind = "lists"
    /\ \/ Len(inp.highs) # Len(inp.lows)
       \/ Len(inp.opens) # Len(inp.lows)
       \/ Len(inp.closes) # Len(inp.lows)

\* C7 as stated: lists of different lengths, or bars not in strictly
\* ascending time order, end the call in an error and give no signal.
InvalidInputRejected ==
    /\ (out.kind # "none" /\ MismatchedLists) => out.kind = "error"
    /\ (calls # <<>> /\ ~Ascending(calls[Len(calls)].bars)) => ret.kind = "error"

(***************************************************************************)
(* Properties of the structure engine.  ret holds the streams of the last  *)
(* call and calls its frame.                                               *)
(***************************************************************************)
LastBars == calls[Len(calls)].bars

Evaluated == calls # <<>> /\ Len(LastBars) >= MIN_BARS

\* C1: on a frame of fewer than 100 bars check_buy_signal returns false as a
\* value, not an error, and computes no pivot, ATR or EMA.
ShortFrameReturnsFalse ==
    (calls # <<>> /\ Len(LastBars) < MIN_BARS) =>
        /\ ret.kind = "value"
        /\ ret.value = FALSE
        /\ ret.work = {}
        /\ ret.pv = NoPivots

\* a frame of 99 bars that ends in a close above its highs has been checked
ShortFrameChecked ==
    /\ calls # <<>>
    /\ Len(LastBars) = MIN_BARS - 1
    /\ LastBars[Len(LastBars)].c = BarUp.c
    /\ ret.kind = "value"

\* C6: two calls on the same series return the same value, whatever was
\* evaluated in between; the caller's frames keep their bars and columns.
SameSeriesSameSignal ==
    /\ \A i, j \in DOMAIN calls :
          calls[i].bars = calls[j].bars => calls[i].value = calls[j].value
    /\ df.cols = OHLCV
    /\ other.cols = OHLCV
    /\ calls # <<>> => (df.bars = LastBars \/ other.bars = LastBars)

\* a frame that signals, checked again after another instrument was checked
CheckedAgainAfterAnother ==
    /\ Len(calls) >= 3
    /\ calls[1].bars = calls[3].bars
    /\ calls[2].bars # calls[1].bars
    /\ calls[1].value
    /\ ret.value

\* C8: for a frame of at least 100 bars the value returned is (swing flag or
\* internal flag after the confluence filter or swing order block or internal
\* order block or equal low) at the latest bar, and EMA20 > EMA50 there.
LatestBarFormula ==
    Evaluated =>
        LET n == Len(LastBars)
        IN ret.value =
              /\ \/ ret.swing[n].flag
                 \/ ret.internal_kept[n]
                 \/ ret.swing_ob[n]
                 \/ ret.internal_ob[n]
                 \/ ret.eq[n]
              /\ ret.ema_20[n] > ret.ema_50[n]

\* a call that returned true on a swing break alone
TrueOnSwingBreak ==
    /\ Evaluated
    /\ ret.value
    /\ LET n == Len(LastBars)
       IN /\ ret.swing[n].flag
          /\ ~ret.internal_kept[n]
          /\ ~ret.swing_ob[n]
          /\ ~ret.internal_ob[n]
          /\ ~ret.eq[n]

Flagged(run) == {k \in DOMAIN run : run[k].flag}

\* a flagged bar is a transition into Bullish (1) from Neutral (0) or Bearish (-1)
FlagOnlyOnTransition(run) ==
    \A k \in Flagged(run) : run[k].before \in {0, -1} /\ run[k].trend = 1

\* between two flagged bars a bar closed below the tracked low
ResetBetweenFlags(run, bars) ==
    \A j \in Flagged(run) : \A k \in Flagged(run) :
        j < k => \E m \in (j + 1)..(k - 1) :
                    /\ run[m].lsl.set
                    /\ bars[m].c < run[m].lsl.v
                    /\ ~(bars[m].c > run[m].lsh.v)

\* one flag from Neutral at most, and Neutral is never entered again
BosAtMostOnce(run) ==
    /\ Cardinality({k \in Flagged(run) : run[k].before = 0}) <= 1
    /\ \A k \in DOMAIN run : run[k].before # 0 => run[k].trend # 0

\* the bar before a flagged bar did not close above the tracked high
NoFlagOnSecondClose(run, bars) ==
    \A k \in Flagged(run) :
        k >= 2 => ~(run[k - 1].lsh.set /\ bars[k - 1].c > run[k - 1].lsh.v)

TransitionsOnly(run, bars) ==
    /\ FlagOnlyOnTransition(run)
    /\ ResetBetweenFlags(run, bars)
    /\ BosAtMostOnce(run)
    /\ NoFlagOnSecondClose(run, bars)

\* C9 as stated: in one run of the classifier a bar is flagged only on a
\* transition into Bullish; between two flagged bars some bar closes below
\* lastSignificantLow and not above lastSignificantHigh; a flag from Neutral
\* occurs at most once; of consecutive closes above lastSignificantHigh at
\* most the first is flagged.
FlagsOnlyOnTransitions ==
    Evaluated => /\ TransitionsOnly(ret.swing, LastBars)
                 /\ TransitionsOnly(ret.internal, LastBars)

\* the values of the recent High pivots lying at or before bar k
HighsAtOrBefore(highs, bars, k) ==
    LET recent == LastK(highs, RECENT_PIVOTS)
    IN {recent[j].v : j \in {j \in 1..Len(recent) : recent[j].t <= bars[k].t}}

\* every bar that closes above the maximum of those values from a trend that
\* is not Bullish is flagged
EveryBreakFlagged(run, highs, bars) ==
    \A k \in DOMAIN run :
        LET el == HighsAtOrBefore(highs, bars, k)
        IN (el # {} /\ bars[k].c > SetMax(el) /\ run[k].before \in {0, -1})
               => run[k].flag

\* C10 as stated: every such bar is flagged, however many pivots exist.
BreakFlaggedWhateverPivots ==
    Evaluated =>
        /\ EveryBreakFlagged(ret.swing, ret.pv.swing_highs, LastBars)
        /\ EveryBreakFlagged(ret.internal, ret.pv.internal_highs, LastBars)

BreakFlaggedGivenPivots(run, highs, lows, bars) ==
    IF Len(highs) >= 2 /\ Len(lows) >= 2
    THEN EveryBreakFlagged(run, highs, bars)
    ELSE \A k \in DOMAIN run : run[k].flag = bool_fill

\* C10: when the run is handed at least 2 High pivots and at least 2 Low
\* pivots, every bar at which a recent High pivot lies at or before the bar,
\* the close is strictly above the maximum of those and the trend before is
\* Neutral or Bearish is flagged; with fewer than 2 High pivots or fewer than
\* 2 Low pivots the run examines no bar and returns its stream as it was
\* built.
BreakFlaggedWithEnoughPivots ==
    Evaluated =>
        /\ BreakFlaggedGivenPivots(ret.swing, ret.pv.swing_highs,
                                   ret.pv.swing_lows, LastBars)
        /\ BreakFlaggedGivenPivots(ret.internal, ret.pv.internal_highs,
                                   ret.pv.internal_lows, LastBars)

\* both cases in one call: the swing run had a single High pivot and flagged
\* nothing at a close above it, the internal run had enough pivots and flagged
SkippedAndFlagged ==
    /\ Evaluated
    /\ Len(ret.pv.swing_highs) = 1
    /\ LastBars[Len(LastBars)].c > ret.pv.swing_highs[1].v
    /\ Flagged(ret.swing) = {}
    /\ Len(ret.pv.internal_highs) >= 2
    /\ Len(ret.pv.internal_lows) >= 2
    /\ Flagged(ret.internal) # {}

(***************************************************************************)
(* Properties of the pivots, order blocks and equal levels of a call.      *)
(***************************************************************************)
\* position k lies w bars from either end and no value of its window
\* series[k-w .. k+w] is beyond series[k]
ExtremeAt(series, w, pivot_type, k) ==
    /\ w + 1 <= k
    /\ k <= Len(series) - w
    /\ \A j \in (k - w)..(k + w) :
          IF pivot_type = "high" THEN series[j] <= series[k]
                                 ELSE series[j] >= series[k]

PivotsAreTheExtremes(pivots, bars, series, w, pivot_type) ==
    /\ {pivots[j].pos : j \in DOMAIN pivots}
           = {k \in DOMAIN series : ExtremeAt(series, w, pivot_type, k)}
    /\ \A j \in DOMAIN pivots :
          /\ pivots[j].v = series[pivots[j].pos]
          /\ pivots[j].t = bars[pivots[j].pos].t
    /\ \A j \in 1..(Len(pivots) - 1) : pivots[j].pos < pivots[j + 1].pos

\* C11: find_pivots marks as High pivots exactly the positions at least w
\* bars from either end whose value equals the maximum of the window of w
\* bars on either side (Low pivots: the minimum); every position sharing the
\* extreme is marked; pivots come in time order with the series value.
PivotsExactlyWindowExtremes ==
    Evaluated =>
        /\ PivotsAreTheExtremes(ret.pv.swing_highs, LastBars, Highs(LastBars),
                                swing_length \div 2, "high")
        /\ PivotsAreTheExtremes(ret.pv.swing_lows, LastBars, Lows(LastBars),
                                swing_length \div 2, "low")
        /\ PivotsAreTheExtremes(ret.pv.internal_highs, LastBars, Highs(LastBars),
                                internal_length \div 2, "high")
        /\ PivotsAreTheExtremes(ret.pv.internal_lows, LastBars, Lows(LastBars),
                                internal_length \div 2, "low")

\* neighbouring bars that share the maximum are both marked, and some bar far
\* enough from both ends is not
TiedPivotsMarked ==
    /\ Evaluated
    /\ \E j \in 1..(Len(ret.pv.swing_highs) - 1) :
          /\ ret.pv.swing_highs[j].pos + 1 = ret.pv.swing_highs[j + 1].pos
          /\ ret.pv.swing_highs[j].v = ret.pv.swing_highs[j + 1].v
    /\ Len(ret.pv.swing_highs) < Len(LastBars) - 2 * (swing_length \div 2)
    /\ Len(ret.pv.internal_lows) > 0

\* the Low pivots at position k or before
LowsUpTo(lows, k) == {j \in DOMAIN lows : lows[j].pos <= k}

\* the value of the one with the greatest position
LastLowUpTo(lows, k) ==
    lows[CHOOSE j \in LowsUpTo(lows, k) :
             \A i \in LowsUpTo(lows, k) : lows[i].pos <= lows[j].pos].v

OrderBlockRule(ob, lows, bars) ==
    \A k \in DOMAIN ob :
        ob[k] <=> /\ k >= OB_WARMUP + 1
                  /\ LowsUpTo(lows, k) # {}
                  /\ bars[k].c > LastLowUpTo(lows, k)
                  /\ bars[k - 1].l <= LastLowUpTo(lows, k)

\* C12 as stated: detect_order_blocks flags bar i exactly when i >= 50, a Low
\* pivot lies at or before bar i and, lastLow being the value of the most
\* recent of those, close[i] > lastLow and low[i-1] <= lastLow; bars before
\* position 50 and bars with no Low pivot at or before them are never flagged.
OrderBlocksExactlyByRule ==
    Evaluated =>
        /\ OrderBlockRule(ret.swing_ob, ret.pv.swing_lows, LastBars)
        /\ OrderBlockRule(ret.internal_ob, ret.pv.internal_lows, LastBars)

\* C13 as stated: equal-low flags are set only on bars that are swing Low
\* pivots, so the equal-low flag of the latest bar is false and the value
\* returned is the one computed without the equal-level stream.
EqualLowNeverOnLatestBar ==
    Evaluated =>
        LET n == Len(LastBars)
        IN /\ \A k \in DOMAIN ret.eq :
                 ret.eq[k] => \E j \in DOMAIN ret.pv.swing_lows :
                                  ret.pv.swing_lows[j].t = LastBars[k].t
           /\ ~ret.eq[n]
           /\ ret.value =
                 /\ \/ ret.swing[n].flag
                    \/ ret.internal_kept[n]
                    \/ ret.swing_ob[n]
                    \/ ret.internal_ob[n]
                 /\ ret.ema_20[n] > ret.ema_50[n]

(***************************************************************************)
(* Properties of the shared alerts_log.                                    *)
(***************************************************************************)
Between(stages) == {t \in ScanThreads : scan_pc[t] \in stages}

\* C14 as stated: whenever no scan_stocks call is between its append and the
\* length check that follows, alerts_log holds at most 100 entries.
LogBoundedAfterLengthCheck ==
    Between({"appended"}) = {} => Len(alerts_log) <= MAX_LOG_LENGTH

\* C14: whenever no scan_stocks call is between its append and the end of
\* the trim that follows (the length check and, when it succeeds, the pop),
\* alerts_log holds at most 100 entries; it exceeds 100 by at most one entry
\* per call that is in between; a call pops once at most per alert it
\* appended and always the oldest entry, so the log is the newest entries in
\* order; calls that appended before any of them checked can each pop, which
\* takes a full log at most one entry per further call below 100.
LogBoundedAfterTrim ==
    /\ Between({"appended", "trimming"}) = {} => Len(alerts_log) <= MAX_LOG_LENGTH
    /\ Len(alerts_log)
           <= MAX_LOG_LENGTH + Cardinality(Between({"appended", "trimming"}))
    /\ alert_clock >= MAX_LOG_LENGTH =>
           Len(alerts_log) - Cardinality(Between({"trimming"}))
               >= MAX_LOG_LENGTH + 1 - Cardinality(ScanThreads)
    /\ \A k \in DOMAIN alerts_log :
           alerts_log[k] = AlertEntry(alert_clock - Len(alerts_log) + k)

\* two calls had appended before either checked, both have popped, and no
\* call is in between: the log is one entry short of 100
TwoTrimsInterleaved ==
    /\ alert_clock = MAX_LOG_LENGTH + 1
    /\ Len(alerts_log) = MAX_LOG_LENGTH - 1
    /\ Between({"appended", "trimming"}) = {}
    /\ Cardinality(Between({"scanning"})) >= 2

============================================================================
